---- MODULE Spec2Model ----
(***************************************************************************)
(* A model of trzsz/pageant, src/pageant.go: the shared-memory connection  *)
(* Conn to PuTTY Pageant (Close, Read, Write, establishConn, sendMessage). *)
(*                                                                         *)
(* A []byte is held as its run-length encoding in normal form: a sequence  *)
(* of runs <<b, n>> (n > 0 times the byte b), no two neighbouring runs of  *)
(* the same byte.  Two slices are equal exactly when their encodings are,  *)
(* and the 8192-byte region of the protocol stays a small value.           *)
(***************************************************************************)
EXTENDS Integers, Sequences, FiniteSets, TLC

(***************************************************************************)
(* Program constants, src/pageant.go:30 and :94.                           *)
(***************************************************************************)
agentMaxMsglen == 8192
dataCap == 10

(***************************************************************************)
(* Bounds of the model.                                                    *)
(***************************************************************************)
MaxWrites == 2
MaxReads == 3
MaxCloses == 2
MaxConnects == 3
MaxBurst == 11

(***************************************************************************)
(* []byte                                                                  *)
(***************************************************************************)
Empty == <<>>

Run(b, n) == IF n <= 0 THEN <<>> ELSE << <<b, n>> >>

RECURSIVE BLen(_)
BLen(s) == IF s = <<>> THEN 0 ELSE Head(s)[2] + BLen(Tail(s))

\* a \o b on slices, kept in normal form
BCat(a, b) ==
    IF a = <<>> THEN b
    ELSE IF b = <<>> THEN a
    ELSE IF a[Len(a)][1] = b[1][1]
         THEN SubSeq(a, 1, Len(a) - 1)
              \o << <<b[1][1], a[Len(a)][2] + b[1][2]>> >>
              \o Tail(b)
         ELSE a \o b

\* s[:n]
RECURSIVE BTake(_, _)
BTake(s, n) ==
    IF n <= 0 \/ s = <<>> THEN <<>>
    ELSE IF Head(s)[2] >= n THEN << <<Head(s)[1], n>> >>
    ELSE <<Head(s)>> \o BTake(Tail(s), n - Head(s)[2])

\* s[n:]
RECURSIVE BDrop(_, _)
BDrop(s, n) ==
    IF n <= 0 \/ s = <<>> THEN s
    ELSE IF Head(s)[2] > n THEN << <<Head(s)[1], Head(s)[2] - n>> >> \o Tail(s)
    ELSE BDrop(Tail(s), n - Head(s)[2])

\* s[i], i counted from 0
RECURSIVE BAt(_, _)
BAt(s, i) == IF i < Head(s)[2] THEN Head(s)[1] ELSE BAt(Tail(s), i - Head(s)[2])

\* the slice of the bytes of a TLA+ sequence
RECURSIVE Bytes(_)
Bytes(q) == IF q = <<>> THEN <<>> ELSE BCat(Run(Head(q), 1), Bytes(Tail(q)))

\* the concatenation of a sequence of slices
RECURSIVE Flatten(_)
Flatten(qs) == IF qs = <<>> THEN <<>> ELSE BCat(Head(qs), Flatten(Tail(qs)))

minInt(x, y) == IF x < y THEN x ELSE y

\* copy(dst, src) where dst is the first Len(dst) bytes of mem: the memory after it
CopyInto(mem, dstLen, src) ==
    LET n == minInt(dstLen, BLen(src))
    IN  BCat(BTake(src, n), BDrop(mem, n))

\* A uint32 is held as its two 16-bit halves [hi, lo] (the value is
\* hi * 65536 + lo): the integers of the checker have 31 bits.
\* binary.BigEndian.Uint32(b)
BigEndianUint32(b) ==
    [hi |-> BAt(b, 0) * 256 + BAt(b, 1), lo |-> BAt(b, 2) * 256 + BAt(b, 3)]

\* v > c for a uint32 v and a constant c < 65536
Uint32Gt(v, c) == v.hi > 0 \/ v.lo > c

\* int(v), for v < 2^31
Uint32ToInt(v) == v.hi * 65536 + v.lo

\* the four bytes of the uint32 [hi, lo], most significant first
PutUint32(hi, lo) ==
    Bytes(<< hi \div 256, hi % 256, lo \div 256, lo % 256 >>)

(***************************************************************************)
(* Values                                                                  *)
(***************************************************************************)
Threads == {"t1", "t2", "t3"}
MainThread == "t1"
NoThread == "none"

Nil == "nil"
EOF == "EOF"
ErrNotConnected == "not connected to Pageant"
ErrRequestTooLong == "size of request message exceeds max length"
ErrEmpty == "message to send is empty"
ErrSend == "failed to send request to Pageant"
ErrRefused == "request refused by Pageant"
ErrResponseTooLong == "size of response message exceeds max length"
ErrUnmap == "UnmapViewOfFile failed"
ErrCloseHandle == "CloseHandle failed"
ErrAccessDenied == "errno 5"
noError == "errno 0"

NoPanic == "none"
PanicCloseClosed == "panic: close of closed channel"
PanicSendClosed == "panic: send on closed channel"
PanicFault == "fatal error: unexpected fault address"

InvalidHandle == "InvalidHandle"
FileHandle == "sharedFile"
WindowHandle == "Pageant"
ViewAddr == 65536
NUL == "\\0"

\* what a thread holds between two steps of Write
NoLocal == [buf |-> Empty, left |-> Empty]
NoCall == [op |-> "none", p |-> Empty, k |-> 0,
           afterClose |-> FALSE, afterCloseErr |-> FALSE]
NoRet == [op |-> "none", n |-> 0, err |-> Nil, bytes |-> Empty]
NoReply == [result |-> -1, lastErr |-> noError, left |-> Empty]

(***************************************************************************)
(* Inputs                                                                  *)
(***************************************************************************)
\* a payload of n bytes, its first bytes all different
Payload(f, n) == BCat(BTake(Bytes(<<f, f + 1>>), n), Run(f + 2, n - 2))

\* a reply that declares L payload bytes and holds as many of them as fit
Resp(hi, lo, f) ==
    BCat(PutUint32(hi, lo),
         Payload(f, IF hi > 0 THEN agentMaxMsglen - 4 ELSE minInt(lo, agentMaxMsglen - 4)))

\* the requests the callers write
Requests ==
    { Empty,
      Bytes(<<0, 0, 0, 1, 11>>),
      Run(7, agentMaxMsglen),
      Run(7, agentMaxMsglen + 1) }

\* what the agent writes at the start of the region (Empty: nothing)
AgentWrites ==
    { Empty,
      Resp(0, 1, 20),
      Resp(0, 3, 30),
      Resp(0, agentMaxMsglen - 4, 40),
      Resp(0, agentMaxMsglen - 3, 50),
      Resp(65535, 65535, 60) }

\* the thread's last error after SendMessageW
LastErrors == {noError, ErrAccessDenied}

\* what the agent does with a notification: the reply code of SendMessageW,
\* the last error, and what it wrote to the region.  An agent that answers
\* 0 has written nothing, or a whole response all the same.
Replies ==
    [result : {1}, lastErr : LastErrors, w : AgentWrites]
    \cup [result : {0}, lastErr : LastErrors, w : {Empty, Resp(0, 1, 20)}]

\* the lengths of the callers' read buffers
ReadSizes == {1, 3, agentMaxMsglen}

(***************************************************************************)
(* State                                                                   *)
(***************************************************************************)
VARIABLES
    window,      \* Conn.window
    sharedFile,  \* Conn.sharedFile
    sharedMem,   \* Conn.sharedMem: 0 or the address of the view
    mapName,     \* Conn.mapName
    data,        \* Conn.data: the channel, [q: its buffer, closed]
    buf,         \* Conn.buf
    eof,         \* Conn.eof
    mutex,       \* Conn.Mutex: the thread that holds it, or NoThread
    region,      \* the bytes of the file mapping
    viewMapped,  \* the view at ViewAddr is mapped
    handleOpen,  \* the handle of the file mapping is open
    pc,          \* where each thread is
    call,        \* the call each thread is in (or made last)
    local,       \* the locals of Write that live across its steps
    ret,         \* what each thread's last call returned
    panic,       \* the panic that ended the program, or NoPanic
    sent,        \* history: the payloads passed to SendMessageW
    enqueued,    \* history: the chunks sent on data
    agentLeft,   \* history: the region as the agent left it, per chunk
    passed,      \* history: the Writes that passed every check of Write
    delivered,   \* history: the bytes the Reads returned
    closedOk,    \* history: a Close has returned nil
    closeErr,    \* history: a Close has returned an error
    reply,       \* history: what the agent answered to each thread's Write
    nWrites, nReads, nCloses,  \* calls made so far
    pid,           \* os.Getpid()
    pageant,       \* the window of Pageant exists
    connUniqueID,  \* the counter connUniqueID
    est,           \* where each thread is in NewPageantConn and its locals
    conns,         \* the connections NewPageantConn returned, in order
    handles,       \* the open handles of file mappings: <<handle, name>>
    views,         \* the mapped views: <<address, handle>>
    ids,           \* history: the values connUniqueID.Add(1) returned
    nConnects      \* calls of NewPageantConn made so far

conn == <<window, sharedFile, sharedMem, mapName, data, buf, eof, mutex>>
os == <<region, viewMapped, handleOpen>>
thr == <<pc, call, local, ret, panic>>
hist == <<sent, enqueued, agentLeft, passed, delivered, closedOk, closeErr, reply>>
counts == <<nWrites, nReads, nCloses>>
proc == <<pid, pageant, connUniqueID, est, conns, handles, views, ids, nConnects>>
vars == <<conn, os, thr, hist, counts, proc>>

\* Sprintf("%x", n)
RECURSIVE Hex(_)
Hex(n) ==
    LET digit == <<"0", "1", "2", "3", "4", "5", "6", "7",
                   "8", "9", "a", "b", "c", "d", "e", "f">>[(n % 16) + 1]
    IN  IF n < 16 THEN <<digit>> ELSE Hex(n \div 16) \o <<digit>>

\* line 229: fmt.Sprintf("PageantRequest_%x_%x", os.Getpid(), id)
MapName(p, id) == <<"PageantRequest_">> \o Hex(p) \o <<"_">> \o Hex(id)

\* the process ids of the model
Pids == {1, 4660}

NoEst == [pc |-> "idle", id |-> 0, mapName |-> <<>>, sharedFile |-> InvalidHandle,
          err |-> Nil]

\* the first connection of the process:
\* c := &Conn{data: make(chan []byte, 10)} after establishConn returned nil
Init ==
    /\ pid \in {1}
    /\ pageant = TRUE
    /\ connUniqueID = 1
    /\ est = [t \in Threads |-> NoEst]
    /\ conns = <<>>
    /\ handles = {}
    /\ views = {}
    /\ ids = <<1>>
    /\ nConnects = 1
    /\ window = WindowHandle
    /\ sharedFile = FileHandle
    /\ sharedMem = ViewAddr
    /\ mapName = MapName(pid, connUniqueID)
    /\ data = [q |-> <<>>, closed |-> FALSE]
    /\ buf = Empty
    /\ eof = FALSE
    /\ mutex = NoThread
    /\ region = Run(0, agentMaxMsglen)
    /\ viewMapped = TRUE
    /\ handleOpen = TRUE
    /\ pc = [t \in Threads |-> "idle"]
    /\ call = [t \in Threads |-> NoCall]
    /\ local = [t \in Threads |-> NoLocal]
    /\ ret = [t \in Threads |-> NoRet]
    /\ panic = NoPanic
    /\ sent = <<>>
    /\ enqueued = <<>>
    /\ agentLeft = <<>>
    /\ passed = 0
    /\ delivered = Empty
    /\ closedOk = FALSE
    /\ closeErr = FALSE
    /\ reply = [t \in Threads |-> NoReply]
    /\ nWrites = 0
    /\ nReads = 0
    /\ nCloses = 0

\* the call of thread t returns
Return(t, op, n, err, bytes) ==
    /\ ret' = [ret EXCEPT ![t] = [op |-> op, n |-> n, err |-> err, bytes |-> bytes]]
    /\ pc' = [pc EXCEPT ![t] = "idle"]

Goto(t, label) ==
    /\ pc' = [pc EXCEPT ![t] = label]
    /\ UNCHANGED ret

\* thread t makes a call; the history keeps what the call found
Enter(t, op, p, k) ==
    call' = [call EXCEPT ![t] =
                [op |-> op, p |-> p, k |-> k,
                 afterClose |-> closedOk, afterCloseErr |-> closeErr]]

(***************************************************************************)
(* Conn.sendMessage, src/pageant.go:261-277: the reply code with nil when  *)
(* the last error is noError, and with the error otherwise.                *)
(***************************************************************************)
\* sendMessage that drops the last error
sendMessage_NoErr(result, lastErr) == <<result, Nil>>

sendMessage(result, lastErr) ==
    IF lastErr = noError THEN <<result, Nil>> ELSE <<result, lastErr>>

(***************************************************************************)
(* Conn.Write, src/pageant.go:165-202                                      *)
(***************************************************************************)
\* WriteCheck without the check for an empty message
WriteCheck_NoEmpty(p) ==
    IF BLen(p) > agentMaxMsglen THEN ErrRequestTooLong ELSE Nil

\* lines 166-170: the error of the checks of the length, Nil when they pass
WriteCheck(p) ==
    IF BLen(p) > agentMaxMsglen THEN ErrRequestTooLong
    ELSE IF BLen(p) = 0 THEN ErrEmpty
    ELSE Nil

\* Write without the connected check
WriteNotConnected_Never == FALSE

\* line 175: c.sharedMem == 0
WriteNotConnected == sharedMem = 0

\* the check against the whole maximum, the prefix forgotten
ResponseTooLong_Total(messageSize) == Uint32Gt(messageSize, agentMaxMsglen)

\* line 192: messageSize > agentMaxMsglen-4
ResponseTooLong(messageSize) == Uint32Gt(messageSize, agentMaxMsglen - 4)

\* the copy of messageSize bytes, the prefix forgotten
Response_PayloadOnly(mem, messageSize) == BTake(mem, Uint32ToInt(messageSize))

\* lines 196-198: buf := make([]byte, 4+int(messageSize)); copy(buf, src)
Response(mem, messageSize) == BTake(mem, 4 + Uint32ToInt(messageSize))

\* line 199: the buffer of c.data after c.data <- b
ChanSend(q, b) == Append(q, b)

\* lines 165-170: the call and the checks of the length; the callers make
\* fewer than max calls of Write
WriteCallN(t, p, max) ==
    /\ panic = NoPanic
    /\ UNCHANGED proc
    /\ pc[t] = "idle"
    /\ nWrites < max
    /\ nWrites' = nWrites + 1
    /\ Enter(t, "Write", p, 0)
    /\ IF WriteCheck(p) # Nil
       THEN Return(t, "Write", 0, WriteCheck(p), Empty)
       ELSE Goto(t, "Write:lock")
    /\ reply' = [reply EXCEPT ![t] = NoReply]
    /\ UNCHANGED <<conn, os, local, panic, nReads, nCloses>>
    /\ UNCHANGED <<sent, enqueued, agentLeft, passed, delivered, closedOk, closeErr>>

WriteCall(t, p) == WriteCallN(t, p, MaxWrites)

\* Lock that does not wait
MutexFree_Always == TRUE

\* lines 124 and 172: c.Lock() goes on when no goroutine holds the mutex
MutexFree == mutex = NoThread

\* lines 172-183: Lock, the connected check, the copy of the request into
\* the region, and the call of sendMessage with the name of the mapping.
\* A copy into a view that is no longer mapped faults, or lands in
\* whatever is mapped at the address by then.
WriteLock(t) ==
    /\ panic = NoPanic
    /\ UNCHANGED proc
    /\ pc[t] = "Write:lock"
    /\ MutexFree
    /\ IF WriteNotConnected
       THEN /\ Return(t, "Write", 0, ErrNotConnected, Empty)
            /\ UNCHANGED <<mutex, region, sent, panic>>
       ELSE \/ /\ mutex' = t
               /\ region' = CopyInto(region, BLen(call[t].p), call[t].p)
               /\ sent' = Append(sent, mapName \o <<NUL>>)
               /\ Goto(t, "Write:sendMessage")
               /\ UNCHANGED panic
            \/ /\ ~viewMapped
               /\ panic' = PanicFault
               /\ UNCHANGED <<mutex, region, sent, pc, ret>>
    /\ UNCHANGED <<window, sharedFile, sharedMem, mapName, data, buf, eof>>
    /\ UNCHANGED <<viewMapped, handleOpen, call, local>>
    /\ UNCHANGED <<enqueued, agentLeft, passed, delivered, closedOk, closeErr, reply, counts>>

\* lines 183-198: SendMessageW returns after the agent handled the message
\* (it wrote w at the start of the region and answered result), then the
\* reply code is checked, the length prefix is parsed and checked, and the
\* response is copied out of the region.
SendMessageReturn(t, result, lastErr, w) ==
    /\ panic = NoPanic
    /\ UNCHANGED proc
    /\ pc[t] = "Write:sendMessage"
    /\ LET mem == CopyInto(region, BLen(w), w)
           r == sendMessage(result, lastErr)
           messageSize == BigEndianUint32(BTake(mem, 4))
       IN  /\ region' = mem
           /\ reply' = [reply EXCEPT ![t] =
                        [result |-> result, lastErr |-> lastErr, left |-> mem]]
           /\ IF r[1] = 0
              THEN /\ IF r[2] # Nil
                      THEN Return(t, "Write", 0, ErrSend, Empty)
                      ELSE Return(t, "Write", 0, ErrRefused, Empty)
                   /\ mutex' = NoThread
                   /\ UNCHANGED <<local, passed>>
              ELSE IF ResponseTooLong(messageSize)
                   THEN /\ Return(t, "Write", 0, ErrResponseTooLong, Empty)
                        /\ mutex' = NoThread
                        /\ UNCHANGED <<local, passed>>
                   ELSE /\ local' = [local EXCEPT ![t] =
                                [buf |-> Response(mem, messageSize), left |-> mem]]
                        /\ passed' = passed + 1
                        /\ Goto(t, "Write:send")
                        /\ UNCHANGED mutex
    /\ UNCHANGED <<window, sharedFile, sharedMem, mapName, data, buf, eof>>
    /\ UNCHANGED <<viewMapped, handleOpen, call, panic, counts>>
    /\ UNCHANGED <<sent, enqueued, agentLeft, delivered, closedOk, closeErr>>

\* lines 199-201: c.data <- buf (waits while the channel is full, panics
\* when it is closed), return len(p), nil, and the deferred Unlock
WriteSend(t) ==
    /\ panic = NoPanic
    /\ UNCHANGED proc
    /\ pc[t] = "Write:send"
    /\ IF data.closed
       THEN /\ panic' = PanicSendClosed
            /\ UNCHANGED <<data, enqueued, agentLeft, mutex, local, pc, ret>>
       ELSE /\ Len(data.q) < dataCap
            /\ data' = [data EXCEPT !.q = ChanSend(data.q, local[t].buf)]
            /\ enqueued' = Append(enqueued, local[t].buf)
            /\ agentLeft' = Append(agentLeft, local[t].left)
            /\ local' = [local EXCEPT ![t] = NoLocal]
            /\ Return(t, "Write", BLen(call[t].p), Nil, Empty)
            /\ mutex' = NoThread
            /\ UNCHANGED panic
    /\ UNCHANGED <<window, sharedFile, sharedMem, mapName, buf, eof>>
    /\ UNCHANGED <<os, call, sent, passed, delivered, closedOk, closeErr, reply, counts>>

(***************************************************************************)
(* Conn.Close, src/pageant.go:119-139                                      *)
(***************************************************************************)
\* Close without the check that it is done already
CloseDone_Never == FALSE

\* line 120: c.sharedMem == 0
CloseDone == sharedMem = 0

\* lines 119-122: the call and the check of sharedMem, before the lock
CloseCall(t) ==
    /\ panic = NoPanic
    /\ UNCHANGED proc
    /\ pc[t] = "idle"
    /\ nCloses < MaxCloses
    /\ nCloses' = nCloses + 1
    /\ Enter(t, "Close", Empty, 0)
    /\ IF CloseDone
       THEN Return(t, "Close", 0, Nil, Empty) /\ closedOk' = TRUE
       ELSE Goto(t, "Close:lock") /\ UNCHANGED closedOk
    /\ UNCHANGED <<conn, os, local, panic, sent, enqueued, agentLeft, passed, delivered>>
    /\ UNCHANGED <<closeErr, reply, nWrites, nReads>>

\* Close without close(c.data)
ChanClose_Forgotten(d) == d

\* line 127: c.data after close(c.data)
ChanClose(d) == [d EXCEPT !.closed = TRUE]

\* lines 124-127: Lock and close(c.data), which panics on a closed channel
CloseLock(t) ==
    /\ panic = NoPanic
    /\ UNCHANGED proc
    /\ pc[t] = "Close:lock"
    /\ MutexFree
    /\ IF data.closed
       THEN /\ panic' = PanicCloseClosed
            /\ UNCHANGED <<data, mutex, pc, ret>>
       ELSE /\ data' = ChanClose(data)
            /\ mutex' = t
            /\ Goto(t, "Close:release")
            /\ UNCHANGED panic
    /\ UNCHANGED <<window, sharedFile, sharedMem, mapName, buf, eof>>
    /\ UNCHANGED <<os, call, local, hist, counts>>

\* lines 129-138: UnmapViewOfFile and CloseHandle (each may fail), the
\* return of the first error, else the reset of the fields, and the
\* deferred Unlock
CloseRelease(t, unmapFails, closeFails) ==
    /\ panic = NoPanic
    /\ UNCHANGED proc
    /\ pc[t] = "Close:release"
    /\ LET errUnmap == IF unmapFails \/ ~viewMapped THEN ErrUnmap ELSE Nil
           errClose == IF closeFails \/ ~handleOpen THEN ErrCloseHandle ELSE Nil
       IN  /\ viewMapped' = (viewMapped /\ errUnmap # Nil)
           /\ handleOpen' = (handleOpen /\ errClose # Nil)
           /\ IF errUnmap # Nil
              THEN /\ Return(t, "Close", 0, errUnmap, Empty)
                   /\ closeErr' = TRUE
                   /\ UNCHANGED <<sharedMem, sharedFile, closedOk>>
              ELSE IF errClose # Nil
                   THEN /\ Return(t, "Close", 0, errClose, Empty)
                        /\ closeErr' = TRUE
                        /\ UNCHANGED <<sharedMem, sharedFile, closedOk>>
                   ELSE /\ sharedMem' = 0
                        /\ sharedFile' = InvalidHandle
                        /\ closedOk' = TRUE
                        /\ Return(t, "Close", 0, Nil, Empty)
                        /\ UNCHANGED closeErr
    /\ mutex' = NoThread
    /\ UNCHANGED <<window, mapName, data, buf, eof, region>>
    /\ UNCHANGED <<call, local, panic, sent, enqueued, agentLeft, passed, delivered, reply,
                   counts>>

(***************************************************************************)
(* Conn.Read, src/pageant.go:141-162                                       *)
(***************************************************************************)
\* line 146: c.sharedMem == 0
ReadNotConnected == sharedMem = 0

\* a copy that fills all of p
CopyLen_Whole(k, from) == k

\* line 159: n = copy(p, c.buf) for a p of k bytes
CopyLen(k, from) == minInt(k, BLen(from))

\* the rest of the chunk thrown away
Rest_Dropped(from, n) == Empty

\* line 160: c.buf[n:]
Rest(from, n) == BDrop(from, n)

\* lines 159-161: n = copy(p, c.buf); c.buf = c.buf[n:]; return
ReadCopy(t, k, from) ==
    LET n == CopyLen(k, from)
    IN  /\ buf' = Rest(from, n)
        /\ delivered' = BCat(delivered, BTake(from, n))
        /\ Return(t, "Read", n, Nil, BTake(from, n))

\* lines 141-150 (and 159-161 when c.buf holds bytes): the call, the checks
\* of eof and of sharedMem, and the look at c.buf
ReadCall(t, k) ==
    /\ panic = NoPanic
    /\ UNCHANGED proc
    /\ pc[t] = "idle"
    /\ nReads < MaxReads
    /\ nReads' = nReads + 1
    /\ Enter(t, "Read", Empty, k)
    /\ IF eof
       THEN Return(t, "Read", 0, EOF, Empty) /\ UNCHANGED <<buf, delivered>>
       ELSE IF ReadNotConnected
            THEN Return(t, "Read", 0, ErrNotConnected, Empty) /\ UNCHANGED <<buf, delivered>>
            ELSE IF BLen(buf) = 0
                 THEN Goto(t, "Read:recv") /\ UNCHANGED <<buf, delivered>>
                 ELSE ReadCopy(t, k, buf)
    /\ UNCHANGED <<window, sharedFile, sharedMem, mapName, data, eof, mutex>>
    /\ UNCHANGED <<os, local, panic, sent, enqueued, agentLeft, closedOk, closeErr>>
    /\ UNCHANGED <<passed, reply, nWrites, nCloses>>

\* line 152: <-c.data finds the channel empty and open: the goroutine parks
ReadWait(t) ==
    /\ panic = NoPanic
    /\ UNCHANGED proc
    /\ pc[t] = "Read:recv"
    /\ data.q = <<>>
    /\ ~data.closed
    /\ Goto(t, "Read:wait")
    /\ UNCHANGED <<conn, os, call, local, panic, hist, counts>>

\* lines 151-161: c.buf, ok = <-c.data receives, at once or after the wait:
\* end of stream when the channel is closed and empty, else the copy
ReadRecv(t) ==
    /\ panic = NoPanic
    /\ UNCHANGED proc
    /\ pc[t] \in {"Read:recv", "Read:wait"}
    /\ IF data.q # <<>>
       THEN /\ data' = [data EXCEPT !.q = Tail(data.q)]
            /\ ReadCopy(t, call[t].k, Head(data.q))
            /\ UNCHANGED eof
       ELSE /\ data.closed
            /\ eof' = TRUE
            /\ buf' = Empty
            /\ Return(t, "Read", 0, EOF, Empty)
            /\ UNCHANGED <<data, delivered>>
    /\ UNCHANGED <<window, sharedFile, sharedMem, mapName, mutex>>
    /\ UNCHANGED <<os, call, local, panic, sent, enqueued, agentLeft, closedOk, closeErr>>
    /\ UNCHANGED <<passed, reply, counts>>

(***************************************************************************)
(* The program with one caller: a call starts when the one before it has   *)
(* returned ("It is not safe to use Conn in multiple concurrent            *)
(* goroutines", src/pageant.go:46).                                        *)
(***************************************************************************)
Write(t) == \E p \in Requests : WriteCall(t, p)
Notify(t) == \E r \in Replies : SendMessageReturn(t, r.result, r.lastErr, r.w)
Read(t) == \E k \in ReadSizes : ReadCall(t, k)
Close(t) == CloseCall(t)
Release(t) == \E unmapFails, closeFails \in BOOLEAN : CloseRelease(t, unmapFails, closeFails)

Step(t) ==
    \/ Write(t)
    \/ WriteLock(t)
    \/ Notify(t)
    \/ WriteSend(t)
    \/ Read(t)
    \/ ReadWait(t)
    \/ ReadRecv(t)
    \/ Close(t)
    \/ CloseLock(t)
    \/ Release(t)

Next == Step(MainThread)

Spec == Init /\ [][Next]_vars

(***************************************************************************)
(* The program with three callers at once: a reader, a writer and a        *)
(* closer, each making its calls one after the other (Close "from another  *)
(* context" is how a caller cancels a Read).  A goroutine that can run     *)
(* does run, and SendMessageW returns; the callers may stop calling.       *)
(***************************************************************************)
Reader == "t1"
Writer == "t2"
Closer == "t3"

ConcRequests == { Bytes(<<0, 0, 0, 1, 11>>) }
ConcReplies ==
    { [result |-> 1, lastErr |-> noError, w |-> Resp(0, 1, 20)],
      [result |-> 1, lastErr |-> noError, w |-> Resp(0, 3, 30)],
      [result |-> 0, lastErr |-> noError, w |-> Empty] }
ConcReadSizes == {3, agentMaxMsglen}

ConcWrite == \E p \in ConcRequests : WriteCall(Writer, p)
ConcWriteLock == WriteLock(Writer)
ConcNotify ==
    \E r \in ConcReplies : SendMessageReturn(Writer, r.result, r.lastErr, r.w)
ConcWriteSend == WriteSend(Writer)
ConcRead == \E k \in ConcReadSizes : ReadCall(Reader, k)
ConcReadWait == ReadWait(Reader)
ConcReadRecv == ReadRecv(Reader)
ConcClose == CloseCall(Closer)
ConcCloseLock == CloseLock(Closer)
ConcRelease == Release(Closer)

NextConc ==
    \/ ConcWrite
    \/ ConcWriteLock
    \/ ConcNotify
    \/ ConcWriteSend
    \/ ConcRead
    \/ ConcReadWait
    \/ ConcReadRecv
    \/ ConcClose
    \/ ConcCloseLock
    \/ ConcRelease

SpecConc ==
    /\ Init
    /\ [][NextConc]_vars
    /\ WF_vars(ConcWriteLock)
    /\ WF_vars(ConcNotify)
    /\ WF_vars(ConcWriteSend)
    /\ WF_vars(ConcReadWait)
    /\ WF_vars(ConcReadRecv)
    /\ WF_vars(ConcCloseLock)
    /\ WF_vars(ConcRelease)

(***************************************************************************)
(* The same three callers with a writer that makes up to MaxBurst calls,   *)
(* more than c.data holds: every request is answered with a response of    *)
(* five bytes or refused, and a Read takes a whole response.               *)
(***************************************************************************)
BurstRequests == { Bytes(<<0, 0, 0, 1, 11>>) }
BurstReplies ==
    { [result |-> 1, lastErr |-> noError, w |-> Resp(0, 1, 20)],
      [result |-> 0, lastErr |-> noError, w |-> Empty] }
BurstReadSizes == {agentMaxMsglen}

BurstWrite == \E p \in BurstRequests : WriteCallN(Writer, p, MaxBurst)
BurstWriteLock == WriteLock(Writer)
BurstNotify ==
    \E r \in BurstReplies : SendMessageReturn(Writer, r.result, r.lastErr, r.w)
BurstWriteSend == WriteSend(Writer)
BurstRead == \E k \in BurstReadSizes : ReadCall(Reader, k)
BurstReadWait == ReadWait(Reader)
BurstReadRecv == ReadRecv(Reader)
BurstClose == CloseCall(Closer)
BurstCloseLock == CloseLock(Closer)
BurstRelease == Release(Closer)

NextBurst ==
    \/ BurstWrite
    \/ BurstWriteLock
    \/ BurstNotify
    \/ BurstWriteSend
    \/ BurstRead
    \/ BurstReadWait
    \/ BurstReadRecv
    \/ BurstClose
    \/ BurstCloseLock
    \/ BurstRelease

SpecBurst ==
    /\ Init
    /\ [][NextBurst]_vars
    /\ WF_vars(BurstWriteLock)
    /\ WF_vars(BurstNotify)
    /\ WF_vars(BurstWriteSend)
    /\ WF_vars(BurstReadWait)
    /\ WF_vars(BurstReadRecv)
    /\ WF_vars(BurstCloseLock)
    /\ WF_vars(BurstRelease)

(***************************************************************************)
(* Writes and Closes from any of the goroutines at once.  The agent reads  *)
(* the request in the region and answers it with one byte that names it,   *)
(* or refuses it.                                                          *)
(***************************************************************************)
RaceRequests == { Bytes(<<0, 0, 0, 1, 11>>), Bytes(<<0, 0, 0, 1, 12>>) }

\* the response of the agent to the request it finds in the region
AgentAnswer(mem) == Resp(0, 1, BAt(mem, 4) + 10)

RaceWrite == \E t \in Threads, p \in RaceRequests : WriteCall(t, p)
RaceWriteLock == \E t \in Threads : WriteLock(t)
RaceNotify ==
    \E t \in Threads, result \in {0, 1} :
        SendMessageReturn(t, result, noError,
                          IF result = 0 THEN Empty ELSE AgentAnswer(region))
RaceWriteSend == \E t \in Threads : WriteSend(t)
RaceClose == \E t \in Threads : CloseCall(t)
RaceCloseLock == \E t \in Threads : CloseLock(t)
RaceRelease == \E t \in Threads : Release(t)

NextRace ==
    \/ RaceWrite
    \/ RaceWriteLock
    \/ RaceNotify
    \/ RaceWriteSend
    \/ RaceClose
    \/ RaceCloseLock
    \/ RaceRelease

SpecRace == Init /\ [][NextRace]_vars

(***************************************************************************)
(* NewPageantConn and Conn.establishConn, src/pageant.go:90-99, 223-257,   *)
(* called by the threads of one process at once.  The connections they     *)
(* return are kept in conns, [window, sharedFile, sharedMem, mapName,      *)
(* closed: c.data is closed].                                              *)
(***************************************************************************)
ErrNotAvailable == "pageant is not available"
ErrNoWindow == "cannot find Pageant window, ensure Pageant is running"
ErrCreate == "failed to create shared file"
ErrMap == "failed to map file into shared memory"

\* connUniqueID.Load(), used where Add(1) is meant
AtomicAdd1_Load(v) == v

\* line 229: the value of connUniqueID.Add(1)
AtomicAdd1(v) == v + 1

\* the handle and the address that the n-th call gets from the system
HandleOf(n) == <<"handle", n>>
AddrOf(n) == ViewAddr * n

EstReturn(t, err) ==
    est' = [est EXCEPT ![t] = [NoEst EXCEPT !.err = err]]

\* lines 90-94: PageantAvailable() and the new Conn
NewPageantConn(t) ==
    /\ panic = NoPanic
    /\ est[t].pc = "idle"
    /\ nConnects < MaxConnects
    /\ nConnects' = nConnects + 1
    /\ IF ~pageant
       THEN EstReturn(t, ErrNotAvailable)
       ELSE est' = [est EXCEPT ![t] = [NoEst EXCEPT !.pc = "establishConn"]]
    /\ UNCHANGED <<conn, os, thr, hist, counts>>
    /\ UNCHANGED <<pid, pageant, connUniqueID, conns, handles, views, ids>>

\* lines 224-230: PageantWindow(), then the name of the mapping from the
\* process id and connUniqueID.Add(1), one atomic operation
EstablishName(t) ==
    /\ panic = NoPanic
    /\ est[t].pc = "establishConn"
    /\ IF ~pageant
       THEN /\ EstReturn(t, ErrNoWindow)
            /\ UNCHANGED <<connUniqueID, ids>>
       ELSE /\ connUniqueID' = AtomicAdd1(connUniqueID)
            /\ ids' = Append(ids, connUniqueID')
            /\ est' = [est EXCEPT ![t] =
                        [@ EXCEPT !.pc = "CreateFileMapping",
                                  !.id = connUniqueID',
                                  !.mapName = MapName(pid, connUniqueID')]]
    /\ UNCHANGED <<conn, os, thr, hist, counts>>
    /\ UNCHANGED <<pid, pageant, conns, handles, views, nConnects>>

\* lines 231-241: CreateFileMapping, which may fail
EstablishCreate(t, fails) ==
    /\ panic = NoPanic
    /\ est[t].pc = "CreateFileMapping"
    /\ IF fails
       THEN /\ EstReturn(t, ErrCreate)
            /\ UNCHANGED handles
       ELSE /\ handles' = handles \cup {<<HandleOf(est[t].id), est[t].mapName>>}
            /\ est' = [est EXCEPT ![t] =
                        [@ EXCEPT !.pc = "MapViewOfFile",
                                  !.sharedFile = HandleOf(est[t].id)]]
    /\ UNCHANGED <<conn, os, thr, hist, counts>>
    /\ UNCHANGED <<pid, pageant, connUniqueID, conns, views, ids, nConnects>>

\* lines 242-256: MapViewOfFile, which may fail, then the fields of c; and
\* lines 95-98: NewPageantConn returns c
EstablishMap(t, fails) ==
    /\ panic = NoPanic
    /\ est[t].pc = "MapViewOfFile"
    /\ IF fails
       THEN /\ EstReturn(t, ErrMap)
            /\ UNCHANGED <<conns, views>>
       ELSE /\ views' = views \cup {<<AddrOf(est[t].id), est[t].sharedFile>>}
            /\ conns' = Append(conns,
                          [window |-> WindowHandle,
                           sharedFile |-> est[t].sharedFile,
                           sharedMem |-> AddrOf(est[t].id),
                           mapName |-> est[t].mapName,
                           closed |-> FALSE])
            /\ EstReturn(t, Nil)
    /\ UNCHANGED <<conn, os, thr, hist, counts>>
    /\ UNCHANGED <<pid, pageant, connUniqueID, handles, ids, nConnects>>

\* Conn.Close (lines 119-139) of the i-th connection, by one caller
ConnClose(i, unmapFails, closeFails) ==
    /\ panic = NoPanic
    /\ i \in 1..Len(conns)
    /\ LET c == conns[i]
           view == <<c.sharedMem, c.sharedFile>>
           handle == <<c.sharedFile, c.mapName>>
           errUnmap == unmapFails \/ view \notin views
           errClose == closeFails \/ handle \notin handles
       IN  IF c.sharedMem = 0
           THEN UNCHANGED <<conns, views, handles, panic>>
           ELSE IF c.closed
                THEN /\ panic' = PanicCloseClosed
                     /\ UNCHANGED <<conns, views, handles>>
                ELSE /\ views' = IF errUnmap THEN views ELSE views \ {view}
                     /\ handles' = IF errClose THEN handles ELSE handles \ {handle}
                     /\ conns' = [conns EXCEPT ![i] =
                                   IF errUnmap \/ errClose
                                   THEN [c EXCEPT !.closed = TRUE]
                                   ELSE [c EXCEPT !.closed = TRUE,
                                                  !.sharedMem = 0,
                                                  !.sharedFile = InvalidHandle]]
                     /\ UNCHANGED panic
    /\ UNCHANGED <<conn, os, pc, call, local, ret, hist, counts>>
    /\ UNCHANGED <<pid, pageant, connUniqueID, est, ids, nConnects>>

\* Pageant is started or ends
PageantToggle ==
    /\ panic = NoPanic
    /\ pageant' = ~pageant
    /\ UNCHANGED <<conn, os, thr, hist, counts>>
    /\ UNCHANGED <<pid, connUniqueID, est, conns, handles, views, ids, nConnects>>

\* the connect calls the process has made before (their connections are
\* not followed): the names that come next have one, two and three digits
EarlierConnects == {0, 254}

\* the process before the connect calls that are followed
InitConnect ==
    /\ pid \in Pids
    /\ pageant \in BOOLEAN
    /\ connUniqueID \in EarlierConnects
    /\ est = [t \in Threads |-> NoEst]
    /\ conns = <<>>
    /\ handles = {}
    /\ views = {}
    /\ ids = <<>>
    /\ nConnects = 0
    /\ window = InvalidHandle
    /\ sharedFile = InvalidHandle
    /\ sharedMem = 0
    /\ mapName = <<>>
    /\ data = [q |-> <<>>, closed |-> FALSE]
    /\ buf = Empty
    /\ eof = FALSE
    /\ mutex = NoThread
    /\ region = Empty
    /\ viewMapped = FALSE
    /\ handleOpen = FALSE
    /\ pc = [t \in Threads |-> "idle"]
    /\ call = [t \in Threads |-> NoCall]
    /\ local = [t \in Threads |-> NoLocal]
    /\ ret = [t \in Threads |-> NoRet]
    /\ panic = NoPanic
    /\ sent = <<>>
    /\ enqueued = <<>>
    /\ agentLeft = <<>>
    /\ passed = 0
    /\ delivered = Empty
    /\ closedOk = FALSE
    /\ closeErr = FALSE
    /\ reply = [t \in Threads |-> NoReply]
    /\ nWrites = 0
    /\ nReads = 0
    /\ nCloses = 0

Connect == \E t \in Threads : NewPageantConn(t)
Name == \E t \in Threads : EstablishName(t)
Create == \E t \in Threads, fails \in BOOLEAN : EstablishCreate(t, fails)
Map == \E t \in Threads, fails \in BOOLEAN : EstablishMap(t, fails)
Discard ==
    \E i \in 1..Len(conns), unmapFails, closeFails \in BOOLEAN :
        ConnClose(i, unmapFails, closeFails)

NextConnect ==
    \/ Connect
    \/ Name
    \/ Create
    \/ Map
    \/ Discard
    \/ PageantToggle

SpecConnect == InitConnect /\ [][NextConnect]_vars

(***************************************************************************)
(* Claims.  Returned(t, op): the last call of thread t was op and it has   *)
(* returned; call[t] and ret[t] then describe the same call.               *)
(***************************************************************************)
Returned(t, op) == pc[t] = "idle" /\ call[t].op = op /\ ret[t].op = op

\* the agent answered the Write of thread t with a nonzero reply code
Answered(t) == reply[t] # NoReply /\ reply[t].result # 0

\* the length prefix the agent left in the region
PrefixOf(left) == BigEndianUint32(BTake(left, 4))

\* the first 4+L bytes of the region as the agent left it
ExpectedResponse(left) == BTake(left, 4 + Uint32ToInt(PrefixOf(left)))

\* the responses of the successful Writes, in the order the Writes completed
Expected == [i \in 1..Len(agentLeft) |-> ExpectedResponse(agentLeft[i])]

\* C1: on a connected connection, a Write of 0 < len(p) <= 8192 bytes that
\* the agent answers with a nonzero reply and a prefix L <= 8188 returns
\* (len(p), nil), its chunk is the first 4+L bytes of the region as the
\* agent left it, and the Reads after it deliver exactly these bytes.
C1_WriteThenRead ==
    /\ \A t \in Threads :
         (Returned(t, "Write") /\ Answered(t)
            /\ ~Uint32Gt(PrefixOf(reply[t].left), agentMaxMsglen - 4))
         => /\ ret[t].n = BLen(call[t].p)
            /\ ret[t].n \in 1..agentMaxMsglen
            /\ ret[t].err = Nil
            /\ enqueued # <<>>
            /\ enqueued[Len(enqueued)] = ExpectedResponse(reply[t].left)
            /\ BLen(enqueued[Len(enqueued)])
                 = 4 + Uint32ToInt(PrefixOf(reply[t].left))
    /\ Len(agentLeft) = 1
         => /\ delivered = BTake(ExpectedResponse(agentLeft[1]), BLen(delivered))
            /\ (BLen(buf) = 0 /\ data.q = <<>>)
                 => delivered = ExpectedResponse(agentLeft[1])

\* C1, witness: the largest response (L = 8188) was written and then read
\* in three Reads, 8192 bytes in all
C1_Witness ==
    /\ Returned(MainThread, "Read")
    /\ Len(enqueued) = 1
    /\ nReads = 3
    /\ delivered = Resp(0, agentMaxMsglen - 4, 40)
    /\ BLen(delivered) = agentMaxMsglen

\* C2: the bytes the Reads return, then the bytes held in c.buf and in
\* c.data, are the responses in the order their Writes completed; a Read
\* on the open connection returns at least one byte and no error.
C2_ReadsConcatenateResponses ==
    /\ enqueued = Expected
    /\ BCat(BCat(delivered, buf), Flatten(data.q)) = Flatten(Expected)
    /\ \A t \in Threads :
         (Returned(t, "Read") /\ ~call[t].afterClose /\ ~call[t].afterCloseErr)
         => /\ ret[t].err = Nil
            /\ ret[t].n \in 1..call[t].k
            /\ ret[t].n = BLen(ret[t].bytes)

\* C2, witness: two Writes, then one Read with a buffer smaller than the
\* first response: the rest of it is in c.buf, the second response in c.data
C2_Witness ==
    /\ Returned(MainThread, "Read")
    /\ nReads = 1
    /\ Len(enqueued) = 2
    /\ Len(data.q) = 1
    /\ BLen(buf) > 0
    /\ ret[MainThread].n < BLen(enqueued[1])
    /\ enqueued[1] # enqueued[2]

\* C3 (as claimed): a Read called after a Close returned nil returns io.EOF
C3_ReadAfterCloseIsEOF ==
    \A t \in Threads :
        (Returned(t, "Read") /\ call[t].afterClose) => ret[t].err = EOF

\* C4 (as claimed): a Write called after a Close returned nil returns the
\* not-connected error, for every input
C4_WriteAfterCloseNotConnected ==
    \A t \in Threads :
        (Returned(t, "Write") /\ call[t].afterClose) => ret[t].err = ErrNotConnected

\* the error of a Write of p on a closed connection
ClosedWriteErr(p) ==
    IF BLen(p) > agentMaxMsglen THEN ErrRequestTooLong
    ELSE IF BLen(p) = 0 THEN ErrEmpty
    ELSE ErrNotConnected

\* C4 (amended): a Write called after a Close returned nil fails: with the
\* not-connected error for 0 < len(p) <= 8192, with the empty-message error
\* for an empty p, with the oversize-request error for len(p) > 8192; no
\* step of it notifies the agent, touches the region or enqueues anything.
C4_WriteAfterCloseFails ==
    [][\A t \in Threads :
         (call'[t].op = "Write" /\ call'[t].afterClose
            /\ (pc'[t] # pc[t] \/ nWrites' # nWrites))
         => /\ UNCHANGED <<conn, os, sent, enqueued>>
            /\ pc'[t] \in {"idle", "Write:lock"}
            /\ pc'[t] = "idle"
                 => /\ ret'[t].op = "Write"
                    /\ ret'[t].n = 0
                    /\ ret'[t].err = ClosedWriteErr(call'[t].p)]_vars

\* C4, witness: a Write of a request of valid length returned the
\* not-connected error after a successful Close
C4_Witness ==
    /\ Returned(MainThread, "Write")
    /\ call[MainThread].afterClose
    /\ BLen(call[MainThread].p) \in 1..agentMaxMsglen
    /\ ret[MainThread].err = ErrNotConnected

\* C5: a Write of no bytes fails with the empty-message error, a Write of
\* more than 8192 bytes with the oversize-request error, whatever the
\* state of the connection; the call changes no field of the connection,
\* not the region, sends no notification and enqueues nothing.
C5_BadLengthRejected ==
    [][nWrites' # nWrites
         => LET t == MainThread
                p == call'[t].p
            IN  (BLen(p) = 0 \/ BLen(p) > agentMaxMsglen)
                => /\ pc'[t] = "idle"
                   /\ ret'[t].op = "Write"
                   /\ ret'[t].n = 0
                   /\ ret'[t].err = IF BLen(p) = 0 THEN ErrEmpty ELSE ErrRequestTooLong
                   /\ UNCHANGED <<conn, os, sent, enqueued>>]_vars

\* C5, witness: an empty Write was rejected as empty on a closed connection
C5_Witness ==
    /\ Returned(MainThread, "Write")
    /\ call[MainThread].afterClose
    /\ BLen(call[MainThread].p) = 0
    /\ ret[MainThread].err = ErrEmpty

\* C6: a Close called after a Close has returned nil returns nil at once
\* and changes no field of the connection and nothing of the mapping: it
\* does not close c.data again and does not panic.
C6_CloseIdempotent ==
    [][(nCloses' # nCloses /\ closedOk)
         => LET t == MainThread
            IN  /\ pc'[t] = "idle"
                /\ ret'[t] = [op |-> "Close", n |-> 0, err |-> Nil, bytes |-> Empty]
                /\ panic' = NoPanic
                /\ UNCHANGED <<conn, os>>]_vars

\* C6, witness: the second Close returned nil after the first did
C6_Witness ==
    /\ Returned(MainThread, "Close")
    /\ call[MainThread].afterClose
    /\ nCloses = 2
    /\ ret[MainThread].err = Nil
    /\ data.closed
    /\ panic = NoPanic

\* C7: when the agent answers with a nonzero reply and a prefix L > 8188,
\* for every 32-bit L, the Write fails with the oversize-response error,
\* enqueues nothing, and leaves the connection as it was but for the
\* region: still mapped, c.data open, the mutex free.
C7_OversizeResponseRejected ==
    [][\A t \in Threads :
         (pc[t] = "Write:sendMessage" /\ pc'[t] # pc[t]
            /\ reply'[t].result # 0
            /\ Uint32Gt(PrefixOf(region'), agentMaxMsglen - 4))
         => /\ pc'[t] = "idle"
            /\ ret'[t] = [op |-> "Write", n |-> 0,
                          err |-> ErrResponseTooLong, bytes |-> Empty]
            /\ mutex' = NoThread
            /\ UNCHANGED <<sharedMem, sharedFile, data, buf, eof, enqueued>>
            /\ UNCHANGED <<viewMapped, handleOpen>>]_vars

\* C7, witness: a Write succeeded after an earlier Write was answered with
\* the prefix 0xFFFFFFFF: the region still holds the tail of that answer
\* (only answers with a nonzero reply code write it)
C7_Witness ==
    /\ Returned(MainThread, "Write")
    /\ ret[MainThread].err = Nil
    /\ Len(sent) = 2
    /\ Len(enqueued) = 1
    /\ region = BCat(Resp(0, 1, 20), BDrop(Resp(65535, 65535, 60), 5))

\* C10 (as claimed): a Close called after a Close returned an error does
\* not panic, and once it has returned the view is unmapped, the handle
\* closed and the connection marked closed
C10_CloseAfterFailedClose ==
    \A t \in Threads :
        (call[t].op = "Close" /\ call[t].afterCloseErr)
        => /\ panic = NoPanic
           /\ pc[t] = "idle" => (sharedMem = 0 /\ ~viewMapped /\ ~handleOpen)

\* a Close has returned, with nil or with an error
CloseCompleted == closedOk \/ closeErr

NamesUnderWay == {t \in Threads : est[t].mapName # <<>>}

\* C9: the connections of one process, open or closed, have different
\* region names, and so have the connect calls under way: every call of
\* connUniqueID.Add(1) returned a value no other call returned, also the
\* calls whose connect failed later.
C9_RegionNamesUnique ==
    /\ \A i, j \in 1..Len(ids) : i # j => ids[i] # ids[j]
    /\ \A i, j \in 1..Len(ids) :
         i # j => MapName(pid, ids[i]) # MapName(pid, ids[j])
    /\ \A i, j \in 1..Len(conns) : i # j => conns[i].mapName # conns[j].mapName
    /\ \A t, u \in NamesUnderWay : t # u => est[t].mapName # est[u].mapName
    /\ \A t \in NamesUnderWay, i \in 1..Len(conns) : est[t].mapName # conns[i].mapName
    /\ \A i \in 1..Len(conns) : \E k \in 1..Len(ids) : conns[i].mapName = MapName(pid, ids[k])
    /\ \A t \in NamesUnderWay : \E k \in 1..Len(ids) : est[t].mapName = MapName(pid, ids[k])

\* C9, witness: three connect calls ran at once; one failed after it took
\* its name, two returned connections, and one of these is closed
C9_Witness ==
    /\ Len(ids) = 3
    /\ Len(conns) = 2
    /\ conns[1].sharedMem = 0
    /\ conns[2].sharedMem # 0
    /\ Len(conns[2].mapName) > 4
    /\ \A t \in Threads : est[t].pc = "idle"

\* no call is under way
Quiescent == mutex = NoThread /\ \A t \in Threads : pc[t] = "idle"

\* C11 (as claimed): between the calls, c.sharedMem is nonzero exactly when
\* c.data is open, also after a Close that returned the error of
\* UnmapViewOfFile or of CloseHandle
C11_RegionValidIffOpen ==
    Quiescent => (sharedMem # 0 <=> ~data.closed)

\* C12 (as claimed): a Write whose notify call has returned and whose
\* response passed the check does not wait: its send on c.data can go on
\* (or panics), whatever number of responses is unread
C12_WriteNeverWaitsForRead ==
    \A t \in Threads :
        (pc[t] = "Write:send" /\ panic = NoPanic)
        => (data.closed \/ Len(data.q) < dataCap)

\* C20 (as claimed): a Close that waits for the mutex while no notify call
\* is outstanding returns in the end (or the program has panicked), with no
\* Read being called, whatever number of responses is unread
C20_CloseTerminates ==
    (pc[Closer] = "Close:lock" /\ pc[Writer] # "Write:sendMessage")
        ~> (pc[Closer] = "idle" \/ panic # NoPanic)

\* thread t is in the step in which SendMessageW returns to its Write
NotifyReturns(t) == pc[t] = "Write:sendMessage" /\ pc'[t] # pc[t]

\* C13 (as claimed): when the call of SendMessageW left an error, the Write
\* fails with the failed-to-send error, whatever the reply code, and nothing
\* is enqueued
C13_FailureAlwaysReported ==
    [][\A t \in Threads :
         (NotifyReturns(t) /\ reply'[t].lastErr # noError)
         => /\ pc'[t] = "idle"
            /\ ret'[t].err = ErrSend
            /\ passed' = passed]_vars

\* C13 (amended): a reply code of zero with no error yields the
\* request-refused error, a reply code of zero with an error the
\* failed-to-send error; in both cases the Write returns 0 bytes, enqueues
\* nothing and does not look at the region (an oversize prefix in it is not
\* reported).  A nonzero reply code is the agent's answer whatever error
\* accompanies it: the response is parsed.
C13_NotifyOutcome ==
    [][\A t \in Threads :
         NotifyReturns(t)
         => IF reply'[t].result = 0
            THEN /\ pc'[t] = "idle"
                 /\ ret'[t] = [op |-> "Write", n |-> 0, bytes |-> Empty,
                               err |-> IF reply'[t].lastErr = noError
                                       THEN ErrRefused ELSE ErrSend]
                 /\ mutex' = NoThread
                 /\ UNCHANGED <<data, buf, eof, local, enqueued, passed>>
            ELSE IF Uint32Gt(PrefixOf(region'), agentMaxMsglen - 4)
                 THEN pc'[t] = "idle" /\ ret'[t].err = ErrResponseTooLong
                 ELSE /\ pc'[t] = "Write:send"
                      /\ passed' = passed + 1
                      /\ local'[t].buf = ExpectedResponse(region')]_vars

\* C13, witness: a Write failed with the failed-to-send error while the
\* region held a prefix that is too long (the first bytes of its request)
C13_Witness ==
    /\ Returned(MainThread, "Write")
    /\ reply[MainThread].result = 0
    /\ reply[MainThread].lastErr # noError
    /\ ret[MainThread].err = ErrSend
    /\ Uint32Gt(PrefixOf(region), agentMaxMsglen - 4)

\* C14 (as claimed): whenever no Write is between its last check and its
\* send, the number of chunks ever sent on c.data is the number of Writes
\* that passed every check
C14_EnqueuedEqualsPassed ==
    (panic # NoPanic \/ \A t \in Threads : pc[t] # "Write:send")
    => Len(enqueued) = passed

\* thread t is between the copy of its request into the region and the
\* return of its Write
InWrite(t) == pc[t] \in {"Write:sendMessage", "Write:send"}

\* C15: from the copy of its request to its send on c.data a Write holds
\* the mutex, and no other Write and no Close is past its Lock; the agent
\* finds the request of this Write in the region, the region is as the
\* agent left it when the response is copied out, no step unmaps the view
\* or resets c.sharedMem meanwhile, and the chunk the Write sends is the
\* agent's answer to its own request.
C15_WriteAtomic ==
    /\ [](\A t \in Threads :
            InWrite(t)
            => /\ mutex = t
               /\ \A u \in Threads \ {t} : ~InWrite(u) /\ pc[u] # "Close:release")
    /\ [](\A t \in Threads :
            pc[t] = "Write:sendMessage"
            => BTake(region, BLen(call[t].p)) = call[t].p)
    /\ [](\A t \in Threads :
            pc[t] = "Write:send"
            => /\ local[t].left = region
               /\ local[t].buf = AgentAnswer(call[t].p))
    /\ [][\A t \in Threads :
            InWrite(t) => UNCHANGED <<viewMapped, handleOpen, sharedMem, mapName>>]_vars
    /\ [][enqueued' # enqueued
            => \E t \in Threads :
                 /\ pc[t] = "Write:send"
                 /\ pc'[t] = "idle"
                 /\ enqueued' = Append(enqueued, AgentAnswer(call[t].p))]_vars

\* C15, witness: one Write has sent its chunk, a Write of another request
\* by another goroutine holds the mutex with its response copied out, and
\* a Close of the third goroutine waits for the mutex
C15_Witness ==
    \E t, u, v \in Threads :
        /\ Returned(t, "Write") /\ ret[t].err = Nil
        /\ pc[u] = "Write:send"
        /\ call[u].p # call[t].p
        /\ pc[v] = "Close:lock"
        /\ enqueued = <<AgentAnswer(call[t].p)>>
        /\ local[u].buf # enqueued[1]

\* C19 (as claimed): as long as no Close has returned an error, no Close
\* called while another is under way makes the program panic
C19_ConcurrentCloseSafe ==
    ~closeErr => panic = NoPanic

\* the chunk a Read takes its bytes from: c.buf, or the head of c.data
\* when c.buf is empty
CurrentChunk == IF BLen(buf) > 0 THEN buf ELSE Head(data.q)

\* thread t is in the step in which its Read returns bytes
ReadReturnsBytes(t) ==
    /\ pc[t] \in {"idle", "Read:recv", "Read:wait"}
    /\ pc'[t] = "idle"
    /\ (pc[t] = "idle" => nReads' # nReads)
    /\ call'[t].op = "Read"
    /\ ~call'[t].afterClose /\ ~call'[t].afterCloseErr /\ ~data.closed
    /\ (BLen(buf) > 0 \/ data.q # <<>>)

\* C16: a Read with a buffer of k >= 1 bytes on a connection that no Close
\* has touched returns n = min(k, bytes left in the current chunk) with
\* 1 <= n <= k and no error; the bytes are the first n of that one chunk,
\* c.buf keeps the rest of it, and c.data gives up its head only when c.buf
\* was empty.
C16_ReadWithinOneChunk ==
    [][\A t \in Threads :
         ReadReturnsBytes(t)
         => LET k == call'[t].k
                n == ret'[t].n
            IN  /\ ret'[t].op = "Read"
                /\ ret'[t].err = Nil
                /\ n = minInt(k, BLen(CurrentChunk))
                /\ n >= 1 /\ n <= k
                /\ ret'[t].bytes = BTake(CurrentChunk, n)
                /\ BLen(ret'[t].bytes) = n
                /\ buf' = BDrop(CurrentChunk, n)
                /\ BLen(buf') = BLen(CurrentChunk) - n
                /\ data' = IF BLen(buf) > 0 THEN data
                           ELSE [data EXCEPT !.q = Tail(data.q)]
                /\ delivered' = BCat(delivered, ret'[t].bytes)]_vars

\* C16, witness: with two responses written, a Read of 3 bytes has taken
\* the first response from c.data and left 2 of its 5 bytes in c.buf, and
\* the next Read returned these 2 bytes only, though its buffer is larger
\* and the second response waits in c.data
C16_Witness ==
    /\ Returned(MainThread, "Read")
    /\ nReads = 2
    /\ Len(enqueued) = 2
    /\ Len(data.q) = 1
    /\ call[MainThread].k > 2
    /\ ret[MainThread].n = 2
    /\ BLen(enqueued[1]) = 5
    /\ BLen(buf) = 0
    /\ delivered = enqueued[1]

\* the handles that a connection or a connect call under way still holds
HandlesHeld ==
    {<<conns[i].sharedFile, conns[i].mapName>> : i \in 1..Len(conns)}
    \cup {<<est[t].sharedFile, est[t].mapName>> :
            t \in {u \in Threads : est[u].pc = "MapViewOfFile"}}

\* C17 (as claimed): every open handle of a file mapping belongs to a
\* connection that was returned or to a connect call that is under way: a
\* connect call that failed has left none open
C17_NoHandleLeak == handles \subseteq HandlesHeld

\* C18 (as claimed): no Write copies into or out of the region, and no
\* Close calls UnmapViewOfFile, when the view has been unmapped
C18_NoAccessAfterUnmap ==
    /\ panic # PanicFault
    /\ \A t \in Threads :
         (InWrite(t) \/ pc[t] = "Close:release") => viewMapped
====
